---- MODULE Spec2Model ----
(***************************************************************************)
(* aws-devops-api: the task scheduler (tasks.TaskManager on robfig/cron),  *)
(* the polling loop of main, and the login flow / token cache of           *)
(* auth.AuthModule.                                                        *)
(*                                                                         *)
(* Time is counted in half minutes: cron occurrences fall on whole         *)
(* minutes (even values of now), while time.Now() may fall between them.   *)
(***************************************************************************)
EXTENDS Integers, Sequences, FiniteSets, TLC

VARIABLES
    tasks,      \* TaskManager.tasks: map[string]Task
    entries,    \* the cron's entries: [ID, period, Next, task (the id the job closure captured)]
    nextID,     \* cron.nextID, the last EntryID handed out
    uuids,      \* number of uuid.New() calls so far
    now,        \* time.Now(), in half minutes
    nextPoll,   \* when main's loop wakes from time.Sleep and calls executeTasks again
    spawned,    \* goroutines of executeTasks that have not yet called t.Execute()
    execs,      \* executions of Task.Execute in flight
    fired,      \* <<task id, occurrence>>: an execution was started for an occurrence not yet past
    posts,      \* slack PostMessage: how many calls so far, and the channel of the last
    crashed,    \* an unrecovered panic ended the process
    lastCall,   \* the last TaskManager call made by an API handler, and what it returned
    ncalls,     \* number of requests the HTTP server has received (API calls, callbacks)
    retired,    \* EntryIDs of the registrations a successful UpdateTask/DeleteTask replaced
    deleted,    \* ids for which DeleteTask has returned nil
    access,     \* per goroutine, the TaskManager method it is inside and its map access
    stateStore, \* AuthModule.stateStore: state -> what the login initiation stored
    tokenCache, \* AuthModule.tokenCache: key -> tokenCacheEntry
    cb,         \* per request goroutine, where it is in HandleCallback
    logins,     \* the login initiations so far: [state, nonce sent to the provider, at]
    hits,       \* state -> how many callbacks have found it in stateStore
    mint,       \* per goroutine that calls GetAWSConfig, where it is in getOIDCToken
    nmints,     \* number of GetAWSConfig calls so far
    nrefresh,   \* number of tokens the provider has issued on a refresh grant
    newest,     \* account -> access token of the latest refresh made for it
    crypt,      \* a token payload taken through encryptToken and decryptToken
    run,        \* one call of a task's Execute closure: its inputs and what it returned
    settings,   \* API.config: the OIDC and Slack sections
    request     \* the last request to a route under /api: its Authorization header and its outcome

tmVars == <<tasks, entries, nextID, uuids, nextPoll, spawned, execs, fired, posts,
            crashed, lastCall, retired, deleted>>

authVars == <<stateStore, tokenCache, cb, logins, hits>>

mintVars == <<mint, nmints, nrefresh, newest>>

vars == <<tmVars, ncalls, now, access, authVars, mintVars, crypt, run, settings, request>>

Nil == "nil"
EmptyMap == [x \in {} |-> Nil]

\* m[k] = v and delete(m, k) on a Go map; Store and Delete on a sync.Map
MapStore(m, k, v) == [x \in DOMAIN m \cup {k} |-> IF x = k THEN v ELSE m[x]]
MapDelete(m, k) == [x \in DOMAIN m \ {k} |-> m[x]]

\* ------------------------------------------------------------------ bounds
MaxTasks == 2
MaxCalls == 2
MaxTime == 2
MaxLogins == 2
MaxCallbacks == 2
MaxAuthTime == 10
MaxMints == 2
MaxMintTime == 5
MaxExpiry == 11

\* --------------------------------------------------------------- schedules
TicksPerMinute == 2

\* A cron.Schedule is its period; the nil Schedule has none.
NilSchedule == [period |-> 0]

\* A faulty parser: what it cannot read it takes for "every minute".
ParseStandardLenient(spec) ==
    CASE spec = "*/2 * * * *" -> [schedule |-> [period |-> 2 * TicksPerMinute], err |-> FALSE]
      [] OTHER                -> [schedule |-> [period |-> TicksPerMinute], err |-> FALSE]

\* cron.ParseStandard / the parser of cron.New(): a five-field expression
\* gives (schedule, nil), anything else (nil, err).
ParseStandard(spec) ==
    CASE spec = "* * * * *"   -> [schedule |-> [period |-> TicksPerMinute], err |-> FALSE]
      [] spec = "*/2 * * * *" -> [schedule |-> [period |-> 2 * TicksPerMinute], err |-> FALSE]
      [] OTHER                -> [schedule |-> NilSchedule, err |-> TRUE]

\* cron.Schedule.Next(t): the first occurrence strictly after t.
Next_(schedule, t) == ((t \div schedule.period) + 1) * schedule.period

\* ----------------------------------------------------------------- inputs
Acct1 == "111111111111"
Acct2 == "222222222222"

CfgS3 ==
    [Name |-> "unused-buckets", AWSAccounts |-> <<Acct1>>, Service |-> "s3",
     Command |-> "check_unused_buckets", Schedule |-> "* * * * *", SlackChannel |-> "#ops"]
CfgIAM ==
    [Name |-> "iam-users", AWSAccounts |-> <<Acct1, Acct2>>, Service |-> "iam",
     Command |-> "list_iam_users", Schedule |-> "*/2 * * * *", SlackChannel |-> "#sec"]
CfgBadSchedule ==
    [Name |-> "bad-schedule", AWSAccounts |-> <<Acct1>>, Service |-> "s3",
     Command |-> "check_unused_buckets", Schedule |-> "every minute", SlackChannel |-> "#ops"]
CfgBadService ==
    [Name |-> "bad-service", AWSAccounts |-> <<Acct1>>, Service |-> "ec2",
     Command |-> "list_instances", Schedule |-> "* * * * *", SlackChannel |-> "#ops"]
CfgBadCommand ==
    [Name |-> "bad-command", AWSAccounts |-> <<Acct1>>, Service |-> "s3",
     Command |-> "list_iam_users", Schedule |-> "*/2 * * * *", SlackChannel |-> "#ops"]

TaskConfigs == {CfgS3, CfgIAM, CfgBadSchedule, CfgBadService, CfgBadCommand}

\* config.yaml task lists the process may be started with
ConfigFiles == {<<>>, <<CfgBadSchedule, CfgS3>>}

\* A faulty generator: the same id every time.
UUIDSame(n) == "uuid-1"

\* uuid.New().String(): the n-th fresh id
UUID(n) == "uuid-" \o ToString(n)

\* s3.NewCommand / iam.NewCommand: the closure stored in Task.Execute keeps the
\* command and the accounts; the command is looked at only when it runs.
S3NewCommand(command, accounts) ==
    [svc |-> "s3", command |-> command, accounts |-> accounts]
IAMNewCommand(command, accounts) ==
    [svc |-> "iam", command |-> command, accounts |-> accounts]

\* Whether the closure's switch on command has a case for it.
\* The nil func.
NilFunc == [svc |-> "", command |-> "", accounts |-> <<>>]

KnownCommand(f) ==
    \/ f.svc = "s3" /\ f.command = "check_unused_buckets"
    \/ f.svc = "iam" /\ f.command = "list_iam_users"

\* The Task value NewTaskManager and CreateTask build (cronEntryID is never set).
BuildTask(taskID, cfg, schedule) ==
    [ID |-> taskID, Name |-> cfg.Name, AWSAccounts |-> cfg.AWSAccounts,
     Service |-> cfg.Service, Command |-> cfg.Command, Schedule |-> schedule,
     ScheduleString |-> cfg.Schedule, SlackChannel |-> cfg.SlackChannel,
     Execute |-> IF cfg.Service = "s3" THEN S3NewCommand(cfg.Command, cfg.AWSAccounts)
                 ELSE IF cfg.Service = "iam" THEN IAMNewCommand(cfg.Command, cfg.AWSAccounts)
                 ELSE NilFunc,
     cronEntryID |-> 0]

\* json.Decode of a request body into tasks.Task (API.UpdateTask): the
\* interface field Schedule and the func field Execute cannot be decoded and
\* stay nil, the unexported cronEntryID stays 0.
DecodeTask(body) ==
    [ID |-> body.ID, Name |-> body.Name, AWSAccounts |-> body.AWSAccounts,
     Service |-> body.Service, Command |-> body.Command, Schedule |-> NilSchedule,
     ScheduleString |-> body.ScheduleString, SlackChannel |-> body.SlackChannel,
     Execute |-> NilFunc, cronEntryID |-> 0]

\* The zero Task: what a Go map gives for a key it does not hold.
ZeroTask == DecodeTask([ID |-> "", Name |-> "", AWSAccounts |-> <<>>, Service |-> "",
                        Command |-> "", ScheduleString |-> "", SlackChannel |-> ""])

UpdateBodies ==
    {[ID |-> "", Name |-> "iam-users", AWSAccounts |-> <<Acct2>>, Service |-> "iam",
      Command |-> "list_iam_users", ScheduleString |-> "*/2 * * * *", SlackChannel |-> "#sec"],
     [ID |-> "other", Name |-> "renamed", AWSAccounts |-> <<Acct1>>, Service |-> "s3",
      Command |-> "check_unused_buckets", ScheduleString |-> "* * * * *", SlackChannel |-> "#ops"],
     [ID |-> "", Name |-> "no-schedule", AWSAccounts |-> <<Acct1>>, Service |-> "s3",
      Command |-> "check_unused_buckets", ScheduleString |-> "", SlackChannel |-> "#ops"]}

\* A Task a Go caller of the exported UpdateTask builds itself, with the
\* schedule parsed and the operation resolved.
GoTask ==
    BuildTask("", [CfgIAM EXCEPT !.AWSAccounts = <<Acct2>>], ParseStandard(CfgIAM.Schedule).schedule)

UpdatedTasks == {DecodeTask(b) : b \in UpdateBodies} \cup {GoTask}

\* ------------------------------------------------------------------- cron
\* cron.Schedule(schedule, job): a new entry under the next EntryID; its Next
\* is computed from the clock when the entry is added (or at Start).
CronSchedule(es, id, schedule, taskID, t) ==
    es \cup {[ID |-> id, period |-> schedule.period, Next |-> Next_(schedule, t), task |-> taskID]}

\* cron.Remove(id): drops the entry with that EntryID, if there is one.
CronRemove(es, id) == {e \in es : e.ID # id}

EntriesOf(id) == {e \in entries : e.task = id}

\* ---------------------------------------------------------- NewTaskManager
RECURSIVE LoadConfigs(_, _, _)
\* The loop of NewTaskManager over the task configs, from state st, at time t.
LoadConfigs(cfgs, st, t) ==
    IF cfgs = <<>> THEN st
    ELSE LET cfg == Head(cfgs)
             parsed == ParseStandard(cfg.Schedule)
             schedule == parsed.schedule
         IN  IF parsed.err THEN LoadConfigs(Tail(cfgs), st, t)
             ELSE LET taskID == UUID(st.uuids + 1)
                      st1 == [st EXCEPT !.uuids = @ + 1]
                  IN  IF cfg.Service \notin {"s3", "iam"}
                      THEN LoadConfigs(Tail(cfgs), st1, t)
                      ELSE LoadConfigs(Tail(cfgs),
                             [st1 EXCEPT
                                !.tasks = MapStore(@, taskID, BuildTask(taskID, cfg, schedule)),
                                !.nextID = @ + 1,
                                !.entries = CronSchedule(@, st1.nextID + 1, schedule, taskID, t)],
                             t)

NewTaskManager(taskConfigs, t) ==
    LoadConfigs(taskConfigs, [tasks |-> EmptyMap, entries |-> {}, nextID |-> 0, uuids |-> 0], t)

\* The process starts on a whole minute or between two.
StartTimes == {0, 1}

TMInit ==
    /\ now \in StartTimes
    /\ \E cfgs \in ConfigFiles :
         LET tm == NewTaskManager(cfgs, now)
         IN  /\ tasks = tm.tasks
             /\ entries = tm.entries
             /\ nextID = tm.nextID
             /\ uuids = tm.uuids
    /\ nextPoll = now
    /\ spawned = {}
    /\ execs = {}
    /\ fired = {}
    /\ posts = [n |-> 0, channel |-> Nil]
    /\ crashed = FALSE
    /\ lastCall = [op |-> "NewTaskManager", id |-> Nil, err |-> Nil]
    /\ ncalls = 0
    /\ retired = {}
    /\ deleted = {}

\* ids an API caller may name: every id handed out so far, and one never handed out
CallerIDs == {UUID(n) : n \in 1..uuids} \cup {"missing"}

NotFound == "task not found"
ScheduleFailed == "failed to schedule updated task"

\* A faulty lookup: a missing key is reported as found.
TaskLoadFound(m, id) ==
    IF id \in DOMAIN m THEN [task |-> m[id], exists |-> TRUE]
    ELSE [task |-> ZeroTask, exists |-> TRUE]

\* task, exists := tm.tasks[id]
TaskLoad(m, id) ==
    IF id \in DOMAIN m THEN [task |-> m[id], exists |-> TRUE]
    ELSE [task |-> ZeroTask, exists |-> FALSE]

\* ------------------------------------------------------------- CreateTask
CreateTask(cfg) ==
    /\ ~crashed
    /\ ncalls < MaxCalls
    /\ uuids < MaxTasks
    /\ ncalls' = ncalls + 1
    /\ LET parsed == ParseStandard(cfg.Schedule)
           schedule == parsed.schedule
           taskID == UUID(uuids + 1)
       IN  IF parsed.err
           THEN /\ lastCall' = [op |-> "CreateTask", id |-> Nil, err |-> "error parsing schedule"]
                /\ UNCHANGED <<tasks, entries, nextID, uuids>>
           ELSE IF cfg.Service \notin {"s3", "iam"}
           THEN /\ lastCall' = [op |-> "CreateTask", id |-> Nil, err |-> "unknown service"]
                /\ uuids' = uuids + 1
                /\ UNCHANGED <<tasks, entries, nextID>>
           ELSE /\ tasks' = MapStore(tasks, taskID, BuildTask(taskID, cfg, schedule))
                /\ entries' = CronSchedule(entries, nextID + 1, schedule, taskID, now)
                /\ nextID' = nextID + 1
                /\ uuids' = uuids + 1
                /\ lastCall' = [op |-> "CreateTask", id |-> taskID, err |-> Nil]
    /\ UNCHANGED <<now, nextPoll, spawned, execs, fired, posts, crashed, retired, deleted>>

\* ------------------------------------------------------------- UpdateTask
UpdateTask(id, updatedTask) ==
    /\ ~crashed
    /\ ncalls < MaxCalls
    /\ ncalls' = ncalls + 1
    /\ IF ~TaskLoad(tasks, id).exists
       THEN /\ lastCall' = [op |-> "UpdateTask", id |-> id, err |-> NotFound]
            /\ UNCHANGED <<tasks, entries, nextID, retired>>
       ELSE LET oldTask == TaskLoad(tasks, id).task
                removed == CronRemove(entries, oldTask.cronEntryID)
                parsed == ParseStandard(updatedTask.ScheduleString)
                schedule == parsed.schedule
            IN  IF parsed.err
                THEN /\ entries' = removed
                     /\ lastCall' = [op |-> "UpdateTask", id |-> id,
                                     err |-> ScheduleFailed]
                     /\ UNCHANGED <<tasks, nextID, retired>>
                ELSE /\ entries' = CronSchedule(removed, nextID + 1, schedule, id, now)
                     /\ nextID' = nextID + 1
                     /\ tasks' = MapStore(tasks, id, [updatedTask EXCEPT !.cronEntryID = nextID + 1])
                     /\ retired' = retired \cup {e.ID : e \in EntriesOf(id)}
                     /\ lastCall' = [op |-> "UpdateTask", id |-> id, err |-> Nil]
    /\ UNCHANGED <<uuids, now, nextPoll, spawned, execs, fired, posts, crashed, deleted>>

\* ------------------------------------------------------------- DeleteTask
DeleteTask(id) ==
    /\ ~crashed
    /\ ncalls < MaxCalls
    /\ ncalls' = ncalls + 1
    /\ IF ~TaskLoad(tasks, id).exists
       THEN /\ lastCall' = [op |-> "DeleteTask", id |-> id, err |-> NotFound]
            /\ UNCHANGED <<tasks, entries, retired, deleted>>
       ELSE /\ entries' = CronRemove(entries, TaskLoad(tasks, id).task.cronEntryID)
            /\ tasks' = MapDelete(tasks, id)
            /\ retired' = retired \cup {e.ID : e \in EntriesOf(id)}
            /\ deleted' = deleted \cup {id}
            /\ lastCall' = [op |-> "DeleteTask", id |-> id, err |-> Nil]
    /\ UNCHANGED <<nextID, uuids, now, nextPoll, spawned, execs, fired, posts, crashed>>

\* ------------------------------------------------------------ ExecuteTask
\* An execution of Task.Execute that has just started.
Started(key, task, src, entryID, occ) ==
    [task |-> key, src |-> src, entry |-> entryID, occ |-> occ, f |-> task.Execute,
     channel |-> task.SlackChannel]

\* API.ExecuteTask -> tm.ExecuteTask(id).  A nil Execute panics in the
\* handler's goroutine, where net/http recovers it.
ExecuteTask(id) ==
    /\ ~crashed
    /\ ncalls < MaxCalls
    /\ ncalls' = ncalls + 1
    /\ IF ~TaskLoad(tasks, id).exists
       THEN /\ lastCall' = [op |-> "ExecuteTask", id |-> id, err |-> NotFound]
            /\ UNCHANGED execs
       ELSE IF TaskLoad(tasks, id).task.Execute = NilFunc
       THEN /\ lastCall' = [op |-> "ExecuteTask", id |-> id, err |-> "panic"]
            /\ UNCHANGED execs
       ELSE /\ execs' = execs \cup {Started(id, TaskLoad(tasks, id).task, "admin", 0, -1)}
            /\ lastCall' = [op |-> "ExecuteTask", id |-> id, err |-> Nil]
    /\ UNCHANGED <<tasks, entries, nextID, uuids, now, nextPoll, spawned, fired, posts,
                   crashed, retired, deleted>>

\* The cron's run loop finds entry e due, reschedules it and starts its job,
\* tm.ExecuteTask(e.task), in a goroutine of its own.  cron.New() installs no
\* Recover wrapper: a nil Execute ends the process.
CronFire(e) ==
    /\ ~crashed
    /\ e \in entries
    /\ e.Next <= now
    /\ entries' = (entries \ {e}) \cup {[e EXCEPT !.Next = Next_([period |-> e.period], now)]}
    /\ IF e.task \notin DOMAIN tasks
       THEN UNCHANGED <<execs, fired, crashed>>
       ELSE IF tasks[e.task].Execute = NilFunc
       THEN crashed' = TRUE /\ UNCHANGED <<execs, fired>>
       ELSE /\ execs' = execs \cup {Started(e.task, tasks[e.task], "cron", e.ID, e.Next)}
            /\ fired' = fired \cup {<<e.task, e.Next>>}
            /\ UNCHANGED crashed
    /\ UNCHANGED <<tasks, nextID, uuids, now, nextPoll, spawned, posts, lastCall,
                   ncalls, retired, deleted>>

\* GetAllTasks: the stored tasks, in no order.
GetAllTasks == {tasks[k] : k \in DOMAIN tasks}

\* ------------------------------------------------------------ GetDueTasks
\* A faulty comparison: a task whose next occurrence is a whole minute away
\* counts as due.
GetDueTasksInclusive(t) ==
    {k \in DOMAIN tasks : Next_(tasks[k].Schedule, t) - t <= TicksPerMinute}

\* The keys of the tasks GetDueTasks returns at time t.
GetDueTasks(t) ==
    {k \in DOMAIN tasks : Next_(tasks[k].Schedule, t) - t < TicksPerMinute}

\* task.Schedule.Next on a nil Schedule is a nil dereference.
GetDueTasksPanics == \E k \in DOMAIN tasks : tasks[k].Schedule = NilSchedule

\* A faulty pass: the due tasks' cron entries are moved on to their next
\* occurrence, as if the pass had fired them.
ExecuteTasksMarking ==
    /\ ~crashed
    /\ nextPoll <= now
    /\ IF GetDueTasksPanics
       THEN crashed' = TRUE /\ UNCHANGED <<spawned, nextPoll, entries>>
       ELSE /\ spawned' = spawned \cup
                  {[key |-> k, t |-> tasks[k], occ |-> Next_(tasks[k].Schedule, now)] :
                      k \in GetDueTasks(now)}
            /\ entries' = {IF e.task \in GetDueTasks(now)
                             THEN [e EXCEPT !.Next = Next_([period |-> e.period], e.Next)]
                             ELSE e : e \in entries}
            /\ nextPoll' = now + TicksPerMinute
            /\ UNCHANGED crashed
    /\ UNCHANGED <<tasks, nextID, uuids, now, execs, fired, posts, lastCall,
                   ncalls, retired, deleted>>

\* main's loop: executeTasks, then time.Sleep(1 * time.Minute).  Each due
\* task is handed, by value, to a goroutine of its own.
ExecuteTasks ==
    /\ ~crashed
    /\ nextPoll <= now
    /\ IF GetDueTasksPanics
       THEN crashed' = TRUE /\ UNCHANGED <<spawned, nextPoll>>
       ELSE /\ spawned' = spawned \cup
                  {[key |-> k, t |-> tasks[k], occ |-> Next_(tasks[k].Schedule, now)] :
                      k \in GetDueTasks(now)}
            /\ nextPoll' = now + TicksPerMinute
            /\ UNCHANGED crashed
    /\ UNCHANGED <<tasks, entries, nextID, uuids, now, execs, fired, posts, lastCall,
                   ncalls, retired, deleted>>

\* A goroutine of executeTasks reaches t.Execute().
GoExecute(g) ==
    /\ ~crashed
    /\ g \in spawned
    /\ spawned' = spawned \ {g}
    /\ IF g.t.Execute = NilFunc
       THEN crashed' = TRUE /\ UNCHANGED <<execs, fired>>
       ELSE /\ execs' = execs \cup {Started(g.key, g.t, "poll", 0, g.occ)}
            /\ fired' = fired \cup {<<g.key, g.occ>>}
            /\ UNCHANGED crashed
    /\ UNCHANGED <<tasks, entries, nextID, uuids, now, nextPoll, posts, lastCall,
                   ncalls, retired, deleted>>

\* Task.Execute returns.  An unknown command is an error; a known one
\* succeeds or fails with the credentials and the cloud calls.  Only the
\* goroutine of executeTasks posts, and only a result.
ExecuteReturns(x, ok) ==
    /\ ~crashed
    /\ x \in execs
    /\ ok => KnownCommand(x.f)
    /\ execs' = execs \ {x}
    /\ posts' = IF ok /\ x.src = "poll"
                THEN [n |-> posts.n + 1, channel |-> x.channel]
                ELSE posts
    /\ UNCHANGED <<tasks, entries, nextID, uuids, now, nextPoll, spawned, fired, crashed,
                   lastCall, ncalls, retired, deleted>>

\* Time passes once the cron's timer and the loop's sleep have been served
\* and the goroutines the loop spawned have started.
Tick ==
    /\ ~crashed
    /\ now < MaxTime
    /\ \A e \in entries : e.Next > now
    /\ nextPoll > now
    /\ spawned = {}
    /\ now' = now + 1
    /\ fired' = {p \in fired : p[2] >= now'}
    /\ UNCHANGED <<tasks, entries, nextID, uuids, nextPoll, spawned, execs, posts,
                   crashed, lastCall, ncalls, retired, deleted>>

\* ============================================ the task map, access by access
\* TaskManager holds the map, the auth module and the cron: no lock.  Each
\* HTTP request runs in a goroutine of its own, as does main's loop.  Here a
\* method is followed access by access: a map access begins in one step and
\* ends in a later one, and nothing keeps another goroutine from beginning
\* its own in between.
HTTPGoroutines == {"http-1", "http-2"}
MainLoop == "main-loop"
Goroutines == HTTPGoroutines \cup {MainLoop}

\* A goroutine's frame: the method, its arguments, the cronEntryID it read,
\* the Task it is about to write, and whether a map access is in progress.
IdleFrame == [op |-> "", pc |-> "idle", id |-> "", task |-> ZeroTask, oldID |-> 0]

RaceInit == access = [g \in Goroutines |-> IdleFrame]

Reading(g) == access[g].pc = "reading"
Writing(g) == access[g].pc = "writing"

\* The Go runtime may detect a map access that overlaps a write and end the
\* process ("concurrent map read and map write", "concurrent map writes");
\* when it does not, the access goes on.
Detected(conflict) == IF conflict THEN BOOLEAN ELSE {FALSE}

InFlight == Cardinality({g \in Goroutines : access[g].pc # "idle"})

\* A method whose first map access is a read is called: GetAllTasks (line 96),
\* ExecuteTask (111), UpdateTask (163), DeleteTask (187) from a request,
\* GetDueTasks (87) from main's loop.
RaceBeginRead(g, op, id, u) ==
    /\ ~crashed
    /\ access[g].pc = "idle"
    /\ IF g = MainLoop THEN op = "GetDueTasks" /\ nextPoll <= now
       ELSE op \in {"GetAllTasks", "ExecuteTask", "UpdateTask", "DeleteTask"}
            /\ ncalls + InFlight < MaxCalls
    /\ IF op \in {"GetAllTasks", "GetDueTasks"} THEN id = "" ELSE id \in CallerIDs
    /\ IF op = "UpdateTask" THEN u \in UpdatedTasks ELSE u = ZeroTask
    /\ access' = [access EXCEPT ![g] = [IdleFrame EXCEPT !.op = op, !.pc = "reading",
                                                       !.id = id, !.task = u]]
    /\ crashed' \in Detected(\E g2 \in Goroutines \ {g} : Writing(g2))
    /\ UNCHANGED <<tasks, entries, nextID, uuids, now, nextPoll, spawned, execs, fired,
                   posts, lastCall, ncalls, retired, deleted>>

\* The read ends.  GetDueTasks, GetAllTasks and ExecuteTask return; UpdateTask
\* and DeleteTask return not-found or go on with the cronEntryID they read.
RaceEndRead(g) ==
    /\ ~crashed
    /\ Reading(g)
    /\ LET f == access[g]
       IN  CASE f.op = "GetDueTasks" ->
                  /\ ExecuteTasks
                  /\ access' = [access EXCEPT ![g] = IdleFrame]
             [] f.op = "GetAllTasks" ->
                  /\ access' = [access EXCEPT ![g] = IdleFrame]
                  /\ ncalls' = ncalls + 1
                  /\ lastCall' = [op |-> "GetAllTasks", id |-> Nil, err |-> Nil]
                  /\ UNCHANGED <<tasks, entries, nextID, uuids, now, nextPoll, spawned, execs,
                                 fired, posts, crashed, retired, deleted>>
             [] f.op = "ExecuteTask" ->
                  /\ ExecuteTask(f.id)
                  /\ access' = [access EXCEPT ![g] = IdleFrame]
             [] f.op \in {"UpdateTask", "DeleteTask"} /\ f.id \notin DOMAIN tasks ->
                  /\ access' = [access EXCEPT ![g] = IdleFrame]
                  /\ ncalls' = ncalls + 1
                  /\ lastCall' = [op |-> f.op, id |-> f.id, err |-> NotFound]
                  /\ UNCHANGED <<tasks, entries, nextID, uuids, now, nextPoll, spawned, execs,
                                 fired, posts, crashed, retired, deleted>>
             [] f.op \in {"UpdateTask", "DeleteTask"} /\ f.id \in DOMAIN tasks ->
                  /\ access' = [access EXCEPT ![g].pc = "found",
                                              ![g].oldID = tasks[f.id].cronEntryID]
                  /\ UNCHANGED <<tasks, entries, nextID, uuids, now, nextPoll, spawned, execs,
                                 fired, posts, crashed, lastCall, ncalls, retired, deleted>>

\* UpdateTask lines 169-181 and DeleteTask lines 193-196: the cron calls, then
\* the map write begins (or UpdateTask returns the scheduling error).
RaceBeginWrite(g) ==
    /\ ~crashed
    /\ access[g].pc = "found"
    /\ LET f == access[g]
           removed == CronRemove(entries, f.oldID)
           parsed == ParseStandard(f.task.ScheduleString)
       IN  IF f.op = "UpdateTask" /\ parsed.err
           THEN /\ entries' = removed
                /\ access' = [access EXCEPT ![g] = IdleFrame]
                /\ ncalls' = ncalls + 1
                /\ lastCall' = [op |-> f.op, id |-> f.id, err |-> ScheduleFailed]
                /\ UNCHANGED <<nextID, retired, crashed>>
           ELSE /\ IF f.op = "UpdateTask"
                   THEN /\ entries' = CronSchedule(removed, nextID + 1, parsed.schedule, f.id, now)
                        /\ nextID' = nextID + 1
                        /\ access' = [access EXCEPT ![g].pc = "writing",
                                                    ![g].task.cronEntryID = nextID + 1]
                   ELSE /\ entries' = removed
                        /\ access' = [access EXCEPT ![g].pc = "writing"]
                        /\ UNCHANGED nextID
                /\ retired' = retired \cup {e.ID : e \in EntriesOf(f.id)}
                /\ crashed' \in Detected(\E g2 \in Goroutines \ {g} : Reading(g2) \/ Writing(g2))
                /\ UNCHANGED <<lastCall, ncalls>>
    /\ UNCHANGED <<tasks, uuids, now, nextPoll, spawned, execs, fired, posts, deleted>>

\* CreateTask: lines 127-151 return an error without touching the map, or the
\* map write of line 153 begins.
RaceCreateTask(g, cfg) ==
    /\ ~crashed
    /\ g \in HTTPGoroutines
    /\ access[g].pc = "idle"
    /\ ncalls + InFlight < MaxCalls
    /\ uuids < MaxTasks
    /\ LET parsed == ParseStandard(cfg.Schedule)
       IN  IF parsed.err \/ cfg.Service \notin {"s3", "iam"}
           THEN CreateTask(cfg) /\ UNCHANGED access
           ELSE /\ uuids' = uuids + 1
                /\ access' = [access EXCEPT ![g] =
                       [IdleFrame EXCEPT !.op = "CreateTask", !.pc = "writing",
                                         !.id = UUID(uuids + 1),
                                         !.task = BuildTask(UUID(uuids + 1), cfg, parsed.schedule)]]
                /\ crashed' \in Detected(\E g2 \in Goroutines \ {g} : Reading(g2) \/ Writing(g2))
                /\ UNCHANGED <<tasks, entries, nextID, now, nextPoll, spawned, execs, fired,
                               posts, lastCall, ncalls, retired, deleted>>

\* The write ends and the method returns (CreateTask after cron.Schedule, line 154).
RaceEndWrite(g) ==
    /\ ~crashed
    /\ Writing(g)
    /\ LET f == access[g]
       IN  /\ tasks' = IF f.op = "DeleteTask" THEN MapDelete(tasks, f.id)
                       ELSE MapStore(tasks, f.id, f.task)
           /\ deleted' = IF f.op = "DeleteTask" THEN deleted \cup {f.id} ELSE deleted
           /\ IF f.op = "CreateTask"
              THEN /\ entries' = CronSchedule(entries, nextID + 1, f.task.Schedule, f.id, now)
                   /\ nextID' = nextID + 1
              ELSE UNCHANGED <<entries, nextID>>
           /\ lastCall' = [op |-> f.op, id |-> f.id, err |-> Nil]
    /\ access' = [access EXCEPT ![g] = IdleFrame]
    /\ ncalls' = ncalls + 1
    /\ UNCHANGED <<uuids, now, nextPoll, spawned, execs, fired, posts, crashed, retired>>

\* =================================================================== auth
\* Request goroutines of the HTTP server that serve /auth/callback.
Handlers == {"h1", "h2"}

Emails == <<"alice@example.com", "bob@example.com">>

\* The user who authenticates at the provider in the k-th login
UserOf(k) == Emails[((k - 1) % Len(Emails)) + 1]

\* 5 * time.Minute, the lifetime GetAuthorizationURL writes down
LoginTTLMinutes == 5
LoginTTL == LoginTTLMinutes * TicksPerMinute

\* How long the identity provider's access tokens live, in half minutes.
TokenLifetime == 4

\* generateRandomState / generateRandomNonce of the k-th login initiation
RandomState(k) == "state-" \o ToString(k)
RandomNonce(k) == "nonce-" \o ToString(k)

\* What sits in stateStore under a state: StartOIDCFlow stores the nonce (a
\* string), GetAuthorizationURL stores a time.Time.
NonceValue(nonce) == [isString |-> TRUE, nonce |-> nonce, expiry |-> 0]
TimeValue(t) == [isString |-> FALSE, nonce |-> "", expiry |-> t]
NoValue == [isString |-> FALSE, nonce |-> "", expiry |-> 0]

\* ---- the identity provider ----
\* The authorization code of the k-th login; the provider binds to it the
\* nonce sent with the authorization request (none for GetAuthorizationURL).
AuthCode(k) == "code-" \o ToString(k)

NoToken == [AccessToken |-> "", TokenType |-> "", RefreshToken |-> "", Expiry |-> 0,
            IDToken |-> FALSE]

\* The token set the provider issues for the k-th login at time t.
LoginToken(k, t) ==
    [AccessToken |-> "at-" \o ToString(k), TokenType |-> "Bearer",
     RefreshToken |-> "rt-" \o ToString(k), Expiry |-> t + TokenLifetime, IDToken |-> TRUE]

\* oauth2.Config.Exchange(code) at time t: the token set for the login that
\* made the code, its ID token carrying the nonce of that login's
\* authorization request; an error for any other code.
Exchange(code, t) ==
    IF \E k \in 1..Len(logins) : code = AuthCode(k)
    THEN LET k == CHOOSE j \in 1..Len(logins) : code = AuthCode(j)
         IN  [err |-> FALSE, email |-> UserOf(k), token |-> LoginToken(k, t),
              nonce |-> logins[k].nonce]
    ELSE [err |-> TRUE, email |-> "", token |-> NoToken, nonce |-> ""]

IssuedStates == {logins[k].state : k \in 1..Len(logins)}
IssuedAt(s) == (CHOOSE l \in {logins[k] : k \in 1..Len(logins)} : l.state = s).at

\* ---- encryptToken / decryptToken ----
\* Byte strings are strings; the helpers below read them back.
StartsWith(s, p) == Len(s) >= Len(p) /\ SubSeq(s, 1, Len(p)) = p

RECURSIVE IndexFrom(_, _, _)
\* The first position >= i at which p occurs in s, 0 when there is none.
IndexFrom(s, p, i) ==
    IF i + Len(p) - 1 > Len(s) THEN 0
    ELSE IF SubSeq(s, i, i + Len(p) - 1) = p THEN i
    ELSE IndexFrom(s, p, i + 1)

DigitValue(c) ==
    CASE c = "0" -> 0 [] c = "1" -> 1 [] c = "2" -> 2 [] c = "3" -> 3 [] c = "4" -> 4
      [] c = "5" -> 5 [] c = "6" -> 6 [] c = "7" -> 7 [] c = "8" -> 8 [] c = "9" -> 9
      [] OTHER -> -1

RECURSIVE ParseDigits(_, _)
\* The number written in s after acc, -1 when s is no number.
ParseDigits(s, acc) ==
    IF s = "" THEN acc
    ELSE LET d == DigitValue(SubSeq(s, 1, 1))
         IN  IF d < 0 THEN -1 ELSE ParseDigits(SubSeq(s, 2, Len(s)), 10 * acc + d)

\* A faulty Marshal: the refresh token is left out.
MarshalNoRefresh(token) ==
    "{access_token:" \o token.AccessToken
      \o (IF token.TokenType = "" THEN "" ELSE ",token_type:" \o token.TokenType)
      \o ",expiry:" \o ToString(token.Expiry) \o "}"

\* json.Marshal(*oauth2.Token): access_token, token_type and refresh_token
\* (both omitempty) and expiry; the id_token sits in the unexported raw field
\* and is not marshalled.
Marshal(token) ==
    "{access_token:" \o token.AccessToken
      \o (IF token.TokenType = "" THEN "" ELSE ",token_type:" \o token.TokenType)
      \o (IF token.RefreshToken = "" THEN "" ELSE ",refresh_token:" \o token.RefreshToken)
      \o ",expiry:" \o ToString(token.Expiry) \o "}"

\* The value of member name in a marshalled object, "" when it has none.
JSONField(doc, name) ==
    LET a == IndexFrom(doc, "{" \o name \o ":", 1)
        b == IndexFrom(doc, "," \o name \o ":", 1)
        i == IF a > 0 THEN a ELSE b
    IN  IF i = 0 THEN ""
        ELSE LET rest == SubSeq(doc, i + Len(name) + 2, Len(doc))
                 c == IndexFrom(rest, ",", 1)
                 e == IF c > 0 THEN c ELSE IndexFrom(rest, "}", 1)
             IN  SubSeq(rest, 1, e - 1)

\* json.Unmarshal(plaintext, &decryptedToken): members that are absent leave
\* the zero value; raw stays nil.
Unmarshal(plaintext) ==
    IF ~StartsWith(plaintext, "{") \/ SubSeq(plaintext, Len(plaintext), Len(plaintext)) # "}"
          \/ ParseDigits(JSONField(plaintext, "expiry"), 0) < 0
    THEN [err |-> TRUE, token |-> NoToken]
    ELSE [err |-> FALSE,
          token |-> [AccessToken |-> JSONField(plaintext, "access_token"),
                     TokenType |-> JSONField(plaintext, "token_type"),
                     RefreshToken |-> JSONField(plaintext, "refresh_token"),
                     Expiry |-> ParseDigits(JSONField(plaintext, "expiry"), 0),
                     IDToken |-> FALSE]]

\* am.encryptionKey, 32 random bytes drawn by NewAuthModule
EncryptionKey == "key"

\* gcm.NonceSize(), in characters of the model's byte strings
NonceSize == 2

\* The nonces io.ReadFull(rand.Reader, nonce) may give
GCMNonces == {"n1", "n2"}

\* gcm.Seal(nonce, nonce, plaintext, nil): the nonce, then the sealed text
Seal(key, nonce, plaintext) == nonce \o "gcm[" \o key \o "|" \o nonce \o "](" \o plaintext \o ")"

\* gcm.Open(nil, nonce, ciphertext, nil): the plaintext when the text was
\* sealed under this key and nonce, an error otherwise.
Open(key, nonce, ciphertext) ==
    LET head == "gcm[" \o key \o "|" \o nonce \o "]("
    IN  IF StartsWith(ciphertext, head) /\ SubSeq(ciphertext, Len(ciphertext), Len(ciphertext)) = ")"
        THEN [err |-> FALSE, plaintext |-> SubSeq(ciphertext, Len(head) + 1, Len(ciphertext) - 1)]
        ELSE [err |-> TRUE, plaintext |-> ""]

\* base64.StdEncoding
EncodeToString(bytes) == "b64(" \o bytes \o ")"
DecodeString(str) ==
    IF StartsWith(str, "b64(") /\ SubSeq(str, Len(str), Len(str)) = ")"
    THEN [err |-> FALSE, bytes |-> SubSeq(str, 5, Len(str) - 1)]
    ELSE [err |-> TRUE, bytes |-> ""]

\* A faulty encryptToken: the token goes into the cache as it is.
encryptTokenPlain(token, nonce) == [token EXCEPT !.IDToken = FALSE]

\* encryptToken with the nonce it drew: only AccessToken, TokenType and
\* Expiry of the returned token are set.
encryptToken(token, nonce) ==
    [AccessToken |-> EncodeToString(Seal(EncryptionKey, nonce, Marshal(token))),
     TokenType |-> token.TokenType, RefreshToken |-> "", Expiry |-> token.Expiry,
     IDToken |-> FALSE]

decryptToken(token) ==
    LET decoded == DecodeString(token.AccessToken)
        ciphertext == decoded.bytes
        opened == Open(EncryptionKey, SubSeq(ciphertext, 1, NonceSize),
                       SubSeq(ciphertext, NonceSize + 1, Len(ciphertext)))
        parsed == Unmarshal(opened.plaintext)
    IN  IF decoded.err THEN [err |-> "failed to decode ciphertext", token |-> NoToken]
        ELSE IF Len(ciphertext) < NonceSize THEN [err |-> "ciphertext too short", token |-> NoToken]
        ELSE IF opened.err THEN [err |-> "failed to decrypt ciphertext", token |-> NoToken]
        ELSE IF parsed.err THEN [err |-> "failed to unmarshal decrypted token", token |-> NoToken]
        ELSE [err |-> "", token |-> parsed.token]

tokenCacheEntry(token, accountID) == [Token |-> token, AccountID |-> accountID]

NoEntry == tokenCacheEntry(NoToken, "")

\* A handler's frame: the request's state and code, what Load returned, the
\* verified ID token's nonce claim, the cache key and entry about to be
\* stored, and the response written.
IdleHandler ==
    [pc |-> "idle", state |-> "", code |-> "", stored |-> NoValue, verified |-> FALSE,
     idNonce |-> "", key |-> "", entry |-> NoEntry, result |-> ""]

AuthInit ==
    /\ stateStore = EmptyMap
    /\ tokenCache = EmptyMap
    /\ cb = [h \in Handlers |-> IdleHandler]
    /\ logins = <<>>
    /\ hits = EmptyMap

\* ---- login initiation ----
\* StartOIDCFlow: a fresh state and nonce; the nonce is stored under the state
\* and sent to the provider.
StartOIDCFlow ==
    /\ Len(logins) < MaxLogins
    /\ LET k == Len(logins) + 1
           state == RandomState(k)
           nonce == RandomNonce(k)
       IN  /\ stateStore' = MapStore(stateStore, state, NonceValue(nonce))
           /\ logins' = Append(logins, [state |-> state, nonce |-> nonce, at |-> now])
    /\ UNCHANGED <<tokenCache, cb, hits, now, ncalls>>

\* handleLogin -> GetAuthorizationURL(state): the expiry time is stored under
\* the state; no nonce is sent.
GetAuthorizationURL ==
    /\ Len(logins) < MaxLogins
    /\ LET k == Len(logins) + 1
           state == RandomState(k)
       IN  /\ stateStore' = MapStore(stateStore, state, TimeValue(now + LoginTTL))
           /\ logins' = Append(logins, [state |-> state, nonce |-> "", at |-> now])
    /\ UNCHANGED <<tokenCache, cb, hits, now, ncalls>>

\* ---- HandleCallback ----
ForgedState == "forged"
BadCode == "bad-code"

InvalidState == "Invalid state parameter"
InvalidNonce == "Invalid nonce"
Successful == "Authentication successful"

\* What can go wrong at the provider's side of a callback
Faults == {"none", "no id_token", "bad signature", "bad claims"}

\* A request for /auth/callback?state=..&code=.. reaches handler h.
CallbackRequest(h, state, code) ==
    /\ cb[h].pc \in {"idle", "done"}
    /\ ncalls < MaxCallbacks
    /\ ncalls' = ncalls + 1
    /\ cb' = [cb EXCEPT ![h] = [IdleHandler EXCEPT !.pc = "L92", !.state = state, !.code = code]]
    /\ UNCHANGED <<stateStore, tokenCache, logins, hits, now>>

\* line 92: stateStore.Load(state)
CallbackLoad(h) ==
    /\ cb[h].pc = "L92"
    /\ IF cb[h].state \in DOMAIN stateStore
       THEN /\ cb' = [cb EXCEPT ![h].pc = "L97", ![h].stored = stateStore[cb[h].state]]
            /\ hits' = MapStore(hits, cb[h].state,
                                IF cb[h].state \in DOMAIN hits THEN hits[cb[h].state] + 1 ELSE 1)
       ELSE /\ cb' = [cb EXCEPT ![h].pc = "done", ![h].code = "", ![h].result = InvalidState]
            /\ UNCHANGED hits
    /\ UNCHANGED <<stateStore, tokenCache, logins, now, ncalls>>

\* A faulty line 97: the PendingLogin is left in the store
StateStoreKeep(store, state) == store

\* line 97: stateStore.Delete(state)
StateStoreDelete(store, state) == MapDelete(store, state)

CallbackDelete(h) ==
    /\ cb[h].pc = "L97"
    /\ stateStore' = StateStoreDelete(stateStore, cb[h].state)
    /\ cb' = [cb EXCEPT ![h].pc = "L99"]
    /\ UNCHANGED <<tokenCache, logins, hits, now, ncalls>>

\* Faulty lines 99-134: without the nonce comparison of line 117
CallbackOutcomeAnyNonce(stored, code, fault, t, iv) ==
    LET ex == Exchange(code, t)
        reject(msg, verified) ==
            [result |-> msg, store |-> FALSE, verified |-> verified,
             idNonce |-> IF verified THEN ex.nonce ELSE "", key |-> "", entry |-> NoEntry]
    IN  IF ex.err THEN reject("Failed to exchange token", FALSE)
        ELSE IF fault = "no id_token" THEN reject("No id_token in token response", FALSE)
        ELSE IF fault = "bad signature" THEN reject("Failed to verify ID token", FALSE)
        ELSE IF fault = "bad claims" THEN reject("Failed to extract claims", TRUE)
        ELSE [result |-> Successful, store |-> TRUE, verified |-> TRUE, idNonce |-> ex.nonce,
              key |-> ex.email, entry |-> tokenCacheEntry(encryptToken(ex.token, iv), ex.email)]

\* lines 99-134: the code exchange, the id_token, its verification, the
\* nonce comparison (storedNonce.(string) panics on a stored time.Time; the
\* HTTP server recovers a handler's panic), the claims and the encryption.
\* Gives the response, or the cache entry to store at line 135.
CallbackOutcome(stored, code, fault, t, iv) ==
    LET ex == Exchange(code, t)
        reject(msg, verified) ==
            [result |-> msg, store |-> FALSE, verified |-> verified,
             idNonce |-> IF verified THEN ex.nonce ELSE "", key |-> "", entry |-> NoEntry]
    IN  IF ex.err THEN reject("Failed to exchange token", FALSE)
        ELSE IF fault = "no id_token" THEN reject("No id_token in token response", FALSE)
        ELSE IF fault = "bad signature" THEN reject("Failed to verify ID token", FALSE)
        ELSE IF ~stored.isString THEN reject("panic", TRUE)
        ELSE IF ex.nonce # stored.nonce THEN reject(InvalidNonce, TRUE)
        ELSE IF fault = "bad claims" THEN reject("Failed to extract claims", TRUE)
        ELSE [result |-> Successful, store |-> TRUE, verified |-> TRUE, idNonce |-> ex.nonce,
              key |-> ex.email, entry |-> tokenCacheEntry(encryptToken(ex.token, iv), ex.email)]

CallbackExchange(h, fault, iv) ==
    /\ cb[h].pc = "L99"
    /\ LET out == CallbackOutcome(cb[h].stored, cb[h].code, fault, now, iv)
       IN  cb' = [cb EXCEPT ![h].pc = IF out.store THEN "L135" ELSE "done",
                            ![h].code = "",
                            ![h].verified = out.verified,
                            ![h].idNonce = out.idNonce,
                            ![h].key = out.key,
                            ![h].entry = out.entry,
                            ![h].result = IF out.store THEN "" ELSE out.result]
    /\ UNCHANGED <<stateStore, tokenCache, logins, hits, now, ncalls>>

\* line 135: tokenCache.Store(claims.Email, entry), then the success message
CallbackStore(h) ==
    /\ cb[h].pc = "L135"
    /\ tokenCache' = MapStore(tokenCache, cb[h].key, cb[h].entry)
    /\ cb' = [cb EXCEPT ![h].pc = "done", ![h].key = "", ![h].entry = NoEntry,
                         ![h].result = Successful]
    /\ UNCHANGED <<stateStore, logins, hits, now, ncalls>>

\* The lifetime of a login passes; no callback takes that long.
AuthTick ==
    /\ \A h \in Handlers : cb[h].pc \in {"idle", "done"}
    /\ now + LoginTTL <= MaxAuthTime
    /\ now' = now + LoginTTL
    /\ UNCHANGED <<authVars, ncalls>>

\* ============================================================ GetAWSConfig
\* Goroutines that run a task's Execute and call GetAWSConfig for an account.
Minters == {"m1", "m2"}

Users == {Emails[k] : k \in 1..Len(Emails)}
UserIndex(u) == CHOOSE k \in 1..Len(Emails) : Emails[k] = u

\* The accountID argument: what a task's aws_accounts list names.
MintAccounts == Users \cup {Acct1}

\* The token caches the callbacks of the logins made at time 0 leave behind:
\* for any set of users, the entry HandleCallback stores at line 135, each
\* sealed under the nonce its callback drew (user k's callback drew "nk").
LoggedInCaches ==
    {[u \in U |-> tokenCacheEntry(encryptToken(LoginToken(UserIndex(u), 0),
                                               "n" \o ToString(UserIndex(u))), u)] :
        U \in SUBSET Users}

\* A faulty Valid: the expiry is not looked at.
ValidNoExpiry(token, t) == token.AccessToken # ""

\* A clock reading is in seconds; an Expiry is in half minutes.
SecondsPerTick == 60 \div TicksPerMinute

\* oauth2's expiryDelta: a token counts as expired 10 seconds early.
ExpiryDeltaSeconds == 10

\* How far into the current half minute time.Now() may be read, in seconds.
ClockOffsets == {0, 25}

\* oauth2.Token.Valid when time.Now() reads t seconds: an access token, and
\* an expiry that is zero or, less expiryDelta, not before t.
Valid(token, t) ==
    /\ token.AccessToken # ""
    /\ \/ token.Expiry = 0
       \/ ~(token.Expiry * SecondsPerTick - ExpiryDeltaSeconds < t)

NoTokenFound == "no token found for account"
RefreshFailed == "failed to refresh token"

\* A faulty Load: a missing account gets some other account's entry.
CacheLoadAny(cache, accountID) ==
    IF accountID \in DOMAIN cache THEN [ok |-> TRUE, entry |-> cache[accountID]]
    ELSE IF DOMAIN cache # {} THEN [ok |-> TRUE, entry |-> cache[CHOOSE k \in DOMAIN cache : TRUE]]
    ELSE [ok |-> FALSE, entry |-> NoEntry]

\* tokenCache.Load(accountID), lines 180-183
CacheLoad(cache, accountID) ==
    IF accountID \in DOMAIN cache
    THEN [ok |-> TRUE, entry |-> cache[accountID]]
    ELSE [ok |-> FALSE, entry |-> NoEntry]

\* refreshToken when the clock reads t seconds: the token source returns a token that is still
\* valid as it is; asks the provider when there is a refresh token; the
\* provider grants the serial-th refreshed token or refuses.
refreshToken(token, t, grant, serial) ==
    IF Valid(token, t) THEN [err |-> FALSE, token |-> token]
    ELSE IF token.RefreshToken = "" \/ ~grant THEN [err |-> TRUE, token |-> NoToken]
    ELSE [err |-> FALSE,
          token |-> [AccessToken |-> "at-r" \o ToString(serial), TokenType |-> "Bearer",
                     RefreshToken |-> token.RefreshToken,
                     Expiry |-> (t \div SecondsPerTick) + TokenLifetime,
                     IDToken |-> TRUE]]

\* Faulty lines 196-204: when the refresh fails the old token is encrypted
\* again and stored.
RefreshOutcomeStoresOld(token, accountID, t, grant, serial, iv) ==
    LET r == refreshToken(token, t, grant, serial)
        kept == IF r.err THEN token ELSE r.token
    IN  [err |-> "", store |-> TRUE, token |-> kept,
         entry |-> tokenCacheEntry(encryptToken(kept, iv), accountID)]

\* Lines 196-204: the refresh and the encryption of its result.  Gives the
\* error to return, or the token to return and the entry to store.
RefreshOutcome(token, accountID, t, grant, serial, iv) ==
    LET r == refreshToken(token, t, grant, serial)
    IN  IF r.err THEN [err |-> RefreshFailed, store |-> FALSE, token |-> NoToken, entry |-> NoEntry]
        ELSE [err |-> "", store |-> TRUE, token |-> r.token,
              entry |-> tokenCacheEntry(encryptToken(r.token, iv), accountID)]

\* GetAWSConfig lines 157-176 around what getOIDCToken returned: the config's
\* web identity token is the access token.
GetAWSConfigReturn(token, err, loaded) ==
    IF err # "" THEN [err |-> "failed to get OIDC token: " \o err, identity |-> ""]
    ELSE IF ~loaded THEN [err |-> "failed to load AWS config", identity |-> ""]
    ELSE [err |-> "", identity |-> token.AccessToken]

\* A caller's frame: the account, the decrypted token, the refreshed token and
\* the entry about to be stored, what getOIDCToken returned and what
\* GetAWSConfig returned.
IdleMinter ==
    [pc |-> "idle", account |-> "", token |-> NoToken, newToken |-> NoToken,
     entry |-> NoEntry, ret |-> NoToken, result |-> [err |-> "", identity |-> ""]]

MintInit ==
    /\ mint = [m \in Minters |-> IdleMinter]
    /\ nmints = 0
    /\ nrefresh = 0
    /\ newest = EmptyMap

Returned(m, token, err, loaded) ==
    [IdleMinter EXCEPT !.pc = "done", !.account = mint[m].account, !.ret = token,
                       !.result = GetAWSConfigReturn(token, err, loaded)]

\* GetAWSConfig(ctx, accountID, roleARN) is called.
MintCall(m, accountID) ==
    /\ mint[m].pc \in {"idle", "done"}
    /\ nmints < MaxMints
    /\ nmints' = nmints + 1
    /\ mint' = [mint EXCEPT ![m] = [IdleMinter EXCEPT !.pc = "L180", !.account = accountID]]
    /\ UNCHANGED <<authVars, nrefresh, newest, now>>

\* Lines 180-193: the Load, the decryption, the validity test.
MintLoad(m, loaded, sec) ==
    /\ mint[m].pc = "L180"
    /\ LET found == CacheLoad(tokenCache, mint[m].account)
           decrypted == decryptToken(found.entry.Token)
           t == now * SecondsPerTick + sec
       IN  mint' = [mint EXCEPT ![m] =
              IF ~found.ok THEN Returned(m, NoToken, NoTokenFound, loaded)
              ELSE IF decrypted.err # "" THEN Returned(m, NoToken, "failed to decrypt token", loaded)
              ELSE IF Valid(decrypted.token, t) THEN Returned(m, decrypted.token, "", loaded)
              ELSE [@ EXCEPT !.pc = "L196", !.token = decrypted.token]]
    /\ UNCHANGED <<authVars, nmints, nrefresh, newest, now>>

\* The last reading of the clock within the current half minute.
LateClock == now * SecondsPerTick + 25

\* Lines 196-204: refreshToken and encryptToken.  The token source reads the
\* clock after line 191 did: a token found expired there is expired here,
\* whatever the later reading is.
MintRefresh(m, grant, iv, loaded) ==
    /\ mint[m].pc = "L196"
    /\ LET out == RefreshOutcome(mint[m].token, mint[m].account, LateClock, grant,
                                 nrefresh + 1, iv)
       IN  IF out.store
           THEN /\ mint' = [mint EXCEPT ![m].pc = "L205", ![m].token = NoToken,
                                         ![m].newToken = out.token, ![m].entry = out.entry]
                /\ nrefresh' = nrefresh + 1
                /\ newest' = MapStore(newest, mint[m].account, out.token.AccessToken)
           ELSE /\ mint' = [mint EXCEPT ![m] = Returned(m, NoToken, out.err, loaded)]
                /\ UNCHANGED <<nrefresh, newest>>
    /\ UNCHANGED <<authVars, nmints, now>>

\* Lines 205-207: tokenCache.Store(accountID, entry); return newToken.
MintStore(m, loaded) ==
    /\ mint[m].pc = "L205"
    /\ tokenCache' = MapStore(tokenCache, mint[m].account, mint[m].entry)
    /\ mint' = [mint EXCEPT ![m] = Returned(m, mint[m].newToken, "", loaded)]
    /\ UNCHANGED <<stateStore, cb, logins, hits, nmints, nrefresh, newest, now>>

\* Time passes between calls.
MintTick ==
    /\ \A m \in Minters : mint[m].pc \in {"idle", "done"}
    /\ now + TicksPerMinute <= MaxMintTime
    /\ now' = now + TicksPerMinute
    /\ UNCHANGED <<authVars, mintVars>>

\* ===================================================== encrypt, then decrypt
\* Token payloads: access tokens, token types, refresh tokens, expiries, and
\* whether the token response carried an id_token.
Payloads ==
    [AccessToken : {"", "at-1", "eyJhbGciOiJSUzI1NiJ9.eyJzdWIiOiJhbGljZSJ9.c2ln"},
     TokenType : {"", "Bearer"}, RefreshToken : {"", "rt-1"}, Expiry : 0..MaxExpiry,
     IDToken : BOOLEAN]

IdleCrypt == [pc |-> "idle", token |-> NoToken, sealed |-> NoToken,
              opened |-> [err |-> "", token |-> NoToken]]

CryptInit == crypt = IdleCrypt

\* encryptToken(token)
Encrypt(iv) ==
    /\ crypt.pc = "token"
    /\ crypt' = [crypt EXCEPT !.pc = "sealed", !.sealed = encryptToken(crypt.token, iv)]

\* decryptToken of what encryptToken returned
Decrypt ==
    /\ crypt.pc = "sealed"
    /\ crypt' = [crypt EXCEPT !.pc = "opened", !.opened = decryptToken(crypt.sealed)]

\* ============================================================ the commands
\* What a run finds outside the process, per account: whether GetAWSConfig
\* gives credentials, and whether the AWS calls made with them succeed.
AuditedAccounts == {Acct1, Acct2}

RECURSIVE AuditAccounts(_, _, _, _, _)
\* The loop over the accounts in listIAMUsers and checkUnusedBuckets: report
\* holds the accounts gone through so far.
AuditAccounts(svc, accounts, cred, cloud, report) ==
    IF accounts = <<>> THEN [err |-> "", report |-> report]
    ELSE LET account == Head(accounts)
         IN  IF ~cred[account]
             THEN [err |-> IF svc = "iam" THEN "error getting AWS config for account " \o account
                           ELSE "error getting last access times for account " \o account,
                   report |-> <<>>]
             ELSE IF ~cloud[account]
             THEN [err |-> IF svc = "iam" THEN "error listing IAM users for account " \o account
                           ELSE "error getting last access times for account " \o account,
                   report |-> <<>>]
             ELSE AuditAccounts(svc, Tail(accounts), cred, cloud, Append(report, account))

\* The closure NewCommand returned, called: the switch on the command, then
\* the audit of the accounts.
Execute(f, cred, cloud) ==
    IF ~KnownCommand(f) THEN [err |-> "unknown command", report |-> <<>>]
    ELSE AuditAccounts(f.svc, f.accounts, cred, cloud, <<>>)

IdleRun ==
    [pc |-> "idle", f |-> NilFunc, cred |-> [a \in AuditedAccounts |-> FALSE],
     cloud |-> [a \in AuditedAccounts |-> FALSE], result |-> [err |-> "", report |-> <<>>]]

RunInit == run = IdleRun

\* The closures CreateTask can store, for one or two accounts.
Closures ==
    {BuildTask("", [cfg EXCEPT !.AWSAccounts = a], NilSchedule).Execute :
        cfg \in {CfgS3, CfgIAM, CfgBadCommand}, a \in {<<Acct1>>, <<Acct1, Acct2>>, <<Acct2, Acct1>>}}

\* task.Execute() runs and returns.
RunExecute ==
    /\ run.pc = "call"
    /\ run' = [run EXCEPT !.pc = "done", !.result = Execute(run.f, run.cred, run.cloud)]
    /\ UNCHANGED <<tmVars, ncalls, now, access, authVars, mintVars, crypt, settings, request>>

\* ================================================================ the API
\* var bypassAuth bool = true
bypassAuth == TRUE

Unauthorized == "Unauthorized"

\* r.Header.Get("Authorization"): none, a logged-in user's key, anything else
Headers == {"", Emails[1], "Bearer x"}

\* config.yaml's oidc and slack sections, and the ones a PUT /api/settings carries
SettingsBodies == {[OIDC |-> "oidc-" \o n, Slack |-> "slack-" \o n] : n \in {"0", "1"}}

APIInit ==
    /\ settings = [OIDC |-> "oidc-0", Slack |-> "slack-0"]
    /\ request = [header |-> "", status |-> ""]

\* HasValidToken(accountID): getOIDCToken gave no error.  The token it
\* refreshed on the way is stored in the cache.
HasValidToken(cache, accountID, t, grant, serial, iv) ==
    LET found == CacheLoad(cache, accountID)
        decrypted == decryptToken(found.entry.Token)
        out == RefreshOutcome(decrypted.token, accountID, t, grant, serial, iv)
    IN  IF ~found.ok \/ decrypted.err # ""
        THEN [valid |-> FALSE, refreshed |-> FALSE, entry |-> NoEntry, token |-> NoToken]
        ELSE IF Valid(decrypted.token, t)
        THEN [valid |-> TRUE, refreshed |-> FALSE, entry |-> NoEntry, token |-> NoToken]
        ELSE [valid |-> out.store, refreshed |-> out.store, entry |-> out.entry, token |-> out.token]

\* authMiddleware: whether next.ServeHTTP is reached, and what HasValidToken
\* did on the way.
authMiddleware(header, cache, t, grant, serial, iv) ==
    IF bypassAuth
    THEN [valid |-> TRUE, refreshed |-> FALSE, entry |-> NoEntry, token |-> NoToken]
    ELSE HasValidToken(cache, header, t, grant, serial, iv)

\* What the middleware did, given its verdict v: the cache entry
\* HasValidToken refreshed, and the response if the handler is not reached.
Through(header, v) ==
    /\ tokenCache' = IF v.refreshed THEN MapStore(tokenCache, header, v.entry)
                     ELSE tokenCache
    /\ nrefresh' = IF v.refreshed THEN nrefresh + 1 ELSE nrefresh
    /\ newest' = IF v.refreshed THEN MapStore(newest, header, v.token.AccessToken)
                 ELSE newest
    /\ request' = [header |-> header,
                   status |-> IF v.valid THEN "served" ELSE Unauthorized]
    /\ UNCHANGED <<access, stateStore, cb, logins, hits, mint, nmints, crypt, run>>

\* A request to a route under /api goes through the middleware.
Route(header, grant, iv) ==
    /\ ncalls < MaxCalls
    /\ Through(header, authMiddleware(header, tokenCache, now * SecondsPerTick, grant,
                                      nrefresh + 1, iv))

\* http.Error(w, "Unauthorized", http.StatusUnauthorized); return
Refused ==
    /\ ncalls' = ncalls + 1
    /\ UNCHANGED <<tmVars, now, settings>>

\* API.GetTasks
GetTasks ==
    /\ ncalls' = ncalls + 1
    /\ lastCall' = [op |-> "GetAllTasks", id |-> Nil, err |-> Nil]
    /\ UNCHANGED <<tasks, entries, nextID, uuids, now, nextPoll, spawned, execs, fired,
                   posts, crashed, retired, deleted, settings>>

\* API.GetSettings
GetSettings ==
    /\ ncalls' = ncalls + 1
    /\ UNCHANGED <<tmVars, now, settings>>

\* API.UpdateSettings: the OIDC and Slack sections are replaced, then saved
\* to config.yaml; whether the save succeeds shows only in the response.
UpdateSettings(updatedConfig) ==
    /\ ncalls' = ncalls + 1
    /\ settings' = [settings EXCEPT !.OIDC = updatedConfig.OIDC, !.Slack = updatedConfig.Slack]
    /\ UNCHANGED <<tmVars, now>>

\* ============================================================ specifications
\* The scheduler alone: the auth module is not in use.
Init == TMInit /\ RaceInit /\ AuthInit /\ MintInit /\ CryptInit /\ RunInit /\ APIInit

Next ==
    \/ \E cfg \in TaskConfigs : CreateTask(cfg)
          /\ UNCHANGED <<access, authVars, mintVars, crypt, run, settings, request>>
    \/ \E id \in CallerIDs, u \in UpdatedTasks : UpdateTask(id, u)
          /\ UNCHANGED <<access, authVars, mintVars, crypt, run, settings, request>>
    \/ \E id \in CallerIDs : DeleteTask(id)
          /\ UNCHANGED <<access, authVars, mintVars, crypt, run, settings, request>>
    \/ \E id \in CallerIDs : ExecuteTask(id)
          /\ UNCHANGED <<access, authVars, mintVars, crypt, run, settings, request>>
    \/ \E e \in entries : CronFire(e)
          /\ UNCHANGED <<access, authVars, mintVars, crypt, run, settings, request>>
    \/ ExecuteTasks /\ UNCHANGED <<access, authVars, mintVars, crypt, run, settings, request>>
    \/ \E g \in spawned : GoExecute(g)
          /\ UNCHANGED <<access, authVars, mintVars, crypt, run, settings, request>>
    \/ \E x \in execs, ok \in BOOLEAN : ExecuteReturns(x, ok)
          /\ UNCHANGED <<access, authVars, mintVars, crypt, run, settings, request>>
    \/ Tick /\ UNCHANGED <<access, authVars, mintVars, crypt, run, settings, request>>

Spec == Init /\ [][Next]_vars

\* A set with one of S's elements: used where one instance stands for all.
OneOf(S) == {CHOOSE x \in S : TRUE}

\* The auth module alone: no tasks are configured.  What the login protocol
\* does is the same whatever nonce encryptToken draws: one stands for all.
InitAuth ==
    /\ AuthInit
    /\ RaceInit
    /\ TMInit
    /\ MintInit
    /\ CryptInit
    /\ RunInit
    /\ APIInit
    /\ now = 0
    /\ tasks = EmptyMap

CallbackStates == IssuedStates \cup {ForgedState}
CallbackCodes == {AuthCode(k) : k \in 1..Len(logins)} \cup {BadCode}

NextAuth ==
    \/ StartOIDCFlow /\ UNCHANGED <<tmVars, access, mintVars, crypt, run, settings, request>>
    \/ GetAuthorizationURL /\ UNCHANGED <<tmVars, access, mintVars, crypt, run, settings, request>>
    \/ \E h \in Handlers, s \in CallbackStates, c \in CallbackCodes :
          CallbackRequest(h, s, c)
            /\ UNCHANGED <<tmVars, access, mintVars, crypt, run, settings, request>>
    \/ \E h \in Handlers : CallbackLoad(h)
          /\ UNCHANGED <<tmVars, access, mintVars, crypt, run, settings, request>>
    \/ \E h \in Handlers : CallbackDelete(h)
          /\ UNCHANGED <<tmVars, access, mintVars, crypt, run, settings, request>>
    \/ \E h \in Handlers, f \in Faults, iv \in OneOf(GCMNonces) : CallbackExchange(h, f, iv)
          /\ UNCHANGED <<tmVars, access, mintVars, crypt, run, settings, request>>
    \/ \E h \in Handlers : CallbackStore(h)
          /\ UNCHANGED <<tmVars, access, mintVars, crypt, run, settings, request>>
    \/ AuthTick /\ UNCHANGED <<tmVars, access, mintVars, crypt, run, settings, request>>

SpecAuth == InitAuth /\ [][NextAuth]_vars

\* The task map under concurrent requests, at one moment of the clock.
RaceArgs == UpdatedTasks \cup {ZeroTask}
RaceOps == {"GetDueTasks", "GetAllTasks", "ExecuteTask", "UpdateTask", "DeleteTask"}

NextRace ==
    \/ \E g \in Goroutines, op \in RaceOps, id \in CallerIDs \cup {""}, u \in RaceArgs :
          RaceBeginRead(g, op, id, u)
            /\ UNCHANGED <<authVars, mintVars, crypt, run, settings, request>>
    \/ \E g \in Goroutines : RaceEndRead(g)
          /\ UNCHANGED <<authVars, mintVars, crypt, run, settings, request>>
    \/ \E g \in Goroutines : RaceBeginWrite(g)
          /\ UNCHANGED <<authVars, mintVars, crypt, run, settings, request>>
    \/ \E g \in Goroutines, cfg \in TaskConfigs : RaceCreateTask(g, cfg)
          /\ UNCHANGED <<authVars, mintVars, crypt, run, settings, request>>
    \/ \E g \in Goroutines : RaceEndWrite(g)
          /\ UNCHANGED <<authVars, mintVars, crypt, run, settings, request>>

SpecRace == Init /\ [][NextRace]_vars

\* The token cache under GetAWSConfig calls, after the logins.
InitMint ==
    /\ TMInit
    /\ RaceInit
    /\ MintInit
    /\ CryptInit
    /\ RunInit
    /\ APIInit
    /\ now \in StartTimes
    /\ tasks = EmptyMap
    /\ stateStore = EmptyMap
    /\ tokenCache \in LoggedInCaches
    /\ cb = [h \in Handlers |-> IdleHandler]
    /\ logins = <<>>
    /\ hits = EmptyMap

NextMint ==
    \/ \E m \in Minters, a \in MintAccounts : MintCall(m, a)
          /\ UNCHANGED <<tmVars, ncalls, access, crypt, run, settings, request>>
    \/ \E m \in Minters, loaded \in BOOLEAN, sec \in ClockOffsets : MintLoad(m, loaded, sec)
          /\ UNCHANGED <<tmVars, ncalls, access, crypt, run, settings, request>>
    \/ \E m \in Minters, grant \in BOOLEAN, iv \in GCMNonces, loaded \in BOOLEAN :
          MintRefresh(m, grant, iv, loaded)
            /\ UNCHANGED <<tmVars, ncalls, access, crypt, run, settings, request>>
    \/ \E m \in Minters, loaded \in BOOLEAN : MintStore(m, loaded)
          /\ UNCHANGED <<tmVars, ncalls, access, crypt, run, settings, request>>
    \/ MintTick /\ UNCHANGED <<tmVars, ncalls, access, crypt, run, settings, request>>

SpecMint == InitMint /\ [][NextMint]_vars

\* Logins and GetAWSConfig calls side by side: the callbacks of new logins
\* run while tasks call GetAWSConfig, on a cache earlier logins have filled.
\* The provider answers every exchange with a well-formed token response;
\* one handler and one caller are enough for a callback to overlap a call.
\* Between requests the lifetime of a login, and of the earlier tokens, passes.
NextLogin ==
    \/ StartOIDCFlow /\ UNCHANGED <<tmVars, access, mintVars, crypt, run, settings, request>>
    \/ \E h \in OneOf(Handlers), s \in IssuedStates, c \in CallbackCodes \ {BadCode} :
          CallbackRequest(h, s, c)
            /\ UNCHANGED <<tmVars, access, mintVars, crypt, run, settings, request>>
    \/ \E h \in OneOf(Handlers) : CallbackLoad(h)
          /\ UNCHANGED <<tmVars, access, mintVars, crypt, run, settings, request>>
    \/ \E h \in OneOf(Handlers) : CallbackDelete(h)
          /\ UNCHANGED <<tmVars, access, mintVars, crypt, run, settings, request>>
    \/ \E h \in OneOf(Handlers), iv \in GCMNonces : CallbackExchange(h, "none", iv)
          /\ UNCHANGED <<tmVars, access, mintVars, crypt, run, settings, request>>
    \/ \E h \in OneOf(Handlers) : CallbackStore(h)
          /\ UNCHANGED <<tmVars, access, mintVars, crypt, run, settings, request>>
    \/ \E m \in OneOf(Minters), a \in MintAccounts : MintCall(m, a)
          /\ UNCHANGED <<tmVars, ncalls, access, crypt, run, settings, request>>
    \/ \E m \in OneOf(Minters), sec \in ClockOffsets : MintLoad(m, TRUE, sec)
          /\ UNCHANGED <<tmVars, ncalls, access, crypt, run, settings, request>>
    \/ \E m \in OneOf(Minters), grant \in BOOLEAN, iv \in GCMNonces : MintRefresh(m, grant, iv, TRUE)
          /\ UNCHANGED <<tmVars, ncalls, access, crypt, run, settings, request>>
    \/ \E m \in OneOf(Minters) : MintStore(m, TRUE)
          /\ UNCHANGED <<tmVars, ncalls, access, crypt, run, settings, request>>
    \/ AuthTick /\ UNCHANGED <<tmVars, access, mintVars, crypt, run, settings, request>>

SpecLogin == InitMint /\ [][NextLogin]_vars

\* encryptToken and decryptToken on their own, for every payload.
InitCrypt ==
    /\ TMInit
    /\ RaceInit
    /\ AuthInit
    /\ MintInit
    /\ RunInit
    /\ APIInit
    /\ now = 0
    /\ tasks = EmptyMap
    /\ crypt \in {[IdleCrypt EXCEPT !.pc = "token", !.token = t] : t \in Payloads}

NextCrypt ==
    \/ \E iv \in GCMNonces : Encrypt(iv)
          /\ UNCHANGED <<tmVars, ncalls, now, access, authVars, mintVars, run, settings, request>>
    \/ Decrypt
          /\ UNCHANGED <<tmVars, ncalls, now, access, authVars, mintVars, run, settings, request>>

SpecCrypt == InitCrypt /\ [][NextCrypt]_vars

\* One call of each closure, for every outcome of the credentials and the
\* AWS calls.
InitRun ==
    /\ TMInit
    /\ RaceInit
    /\ AuthInit
    /\ MintInit
    /\ CryptInit
    /\ APIInit
    /\ now = 0
    /\ tasks = EmptyMap
    /\ run \in {[IdleRun EXCEPT !.pc = "call", !.f = f, !.cred = c, !.cloud = k] :
                  f \in Closures, c \in [AuditedAccounts -> BOOLEAN], k \in [AuditedAccounts -> BOOLEAN]}

SpecRun == InitRun /\ [][RunExecute]_vars

\* The routes under /api, after the logins.
NextAPI ==
    \/ \E h \in Headers, g \in BOOLEAN, iv \in GCMNonces :
          /\ Route(h, g, iv)
          /\ IF request'.status = "served" THEN GetTasks ELSE Refused
    \/ \E h \in Headers, g \in BOOLEAN, iv \in GCMNonces, cfg \in TaskConfigs :
          /\ Route(h, g, iv)
          /\ IF request'.status = "served" THEN CreateTask(cfg) /\ UNCHANGED settings ELSE Refused
    \/ \E h \in Headers, g \in BOOLEAN, iv \in GCMNonces, id \in CallerIDs, b \in UpdateBodies :
          /\ Route(h, g, iv)
          /\ IF request'.status = "served" THEN UpdateTask(id, DecodeTask(b)) /\ UNCHANGED settings
             ELSE Refused
    \/ \E h \in Headers, g \in BOOLEAN, iv \in GCMNonces, id \in CallerIDs :
          /\ Route(h, g, iv)
          /\ IF request'.status = "served" THEN DeleteTask(id) /\ UNCHANGED settings ELSE Refused
    \/ \E h \in Headers, g \in BOOLEAN, iv \in GCMNonces, id \in CallerIDs :
          /\ Route(h, g, iv)
          /\ IF request'.status = "served" THEN ExecuteTask(id) /\ UNCHANGED settings ELSE Refused
    \/ \E h \in Headers, g \in BOOLEAN, iv \in GCMNonces :
          /\ Route(h, g, iv)
          /\ IF request'.status = "served" THEN GetSettings ELSE Refused
    \/ \E h \in Headers, g \in BOOLEAN, iv \in GCMNonces, b \in SettingsBodies :
          /\ Route(h, g, iv)
          /\ IF request'.status = "served" THEN UpdateSettings(b) ELSE Refused

SpecAPI == InitMint /\ [][NextAPI]_vars

\* ==================================================================== claims
\* The closure that s3.NewCommand / iam.NewCommand gives for a task's own
\* Service, Command and AWSAccounts.
Resolved(task) ==
    [svc |-> task.Service, command |-> task.Command, accounts |-> task.AWSAccounts]

\* C1: every task in the task map has exactly one cron registration that
\* fires it, and no two registrations fire the same task id.
C1_OneRegistrationPerTask ==
    /\ \A id \in DOMAIN tasks : Cardinality(EntriesOf(id)) = 1
    /\ \A e1, e2 \in entries : e1.task = e2.task => e1 = e2

\* C2: the cronEntryID of every stored task is the EntryID of that task's
\* active cron registration.
C2_HandleIsRegistration ==
    \A id \in DOMAIN tasks :
        \E e \in entries : e.ID = tasks[id].cronEntryID /\ e.task = id

\* C3: an execution that starts after UpdateTask has returned nil is not
\* started by a registration the update replaced, and runs the operation of
\* the task's current Service, Command and AWSAccounts.
C3_NoStaleFiring ==
    [][\A x \in execs' \ execs :
          /\ x.entry \notin retired
          /\ x.task \in DOMAIN tasks => x.f = Resolved(tasks[x.task])]_vars

\* C4: DeleteTask leaves the executions in flight alone; once it has returned
\* nil no cron registration for the id remains and no execution of the id is
\* started, by the cron or by main's loop.
C4_DeletedNeverFires ==
    [][/\ deleted' # deleted => execs' = execs
       /\ \A e \in entries' : e.task \notin deleted'
       /\ \A x \in execs' \ execs : x.task \notin deleted]_vars

\* C5: no write of the task map by CreateTask, UpdateTask or DeleteTask
\* overlaps another goroutine's read or write of the map.
C5_NoOverlap ==
    \A g1, g2 \in Goroutines :
        g1 # g2 /\ Writing(g1) => ~Reading(g2) /\ ~Writing(g2)

\* C6: for every task and every occurrence of its recurrence at most one
\* execution is started, counting the cron registrations and main's loop.
C6_NoDoubleFire ==
    [][\A x \in execs' \ execs :
          x.src \in {"cron", "poll"} => <<x.task, x.occ>> \notin fired]_vars

\* C7: of all the callbacks that carry the same state, at most one finds it
\* in the state store.
C7_AtMostOneHit == \A s \in DOMAIN hits : hits[s] <= 1

\* A callback that found its state and was then turned down at a later step
FailedAfterHit(f) ==
    f.pc = "done" /\ f.result \notin {"", InvalidState, Successful}

\* C8: a callback past line 97 has its state out of the state store before
\* the code exchange, and a callback that presents a state on which another
\* callback has failed after the hit is answered with the invalid-state error.
C8_ReplayRejected ==
    [][\A h \in Handlers :
          /\ cb'[h].pc \in {"L99", "L135"} => cb'[h].state \notin DOMAIN stateStore'
          /\ (/\ cb[h].pc = "L92"
              /\ cb'[h].pc # "L92"
              /\ \E h2 \in Handlers \ {h} :
                    cb[h2].state = cb[h].state /\ FailedAfterHit(cb[h2]))
             => cb'[h].pc = "done" /\ cb'[h].result = InvalidState]_vars

\* C8 witness: a callback failed on the nonce after its hit, and the replay
\* of its state was answered with the invalid-state error.
C8_Witness ==
    \E h, h2 \in Handlers :
        /\ h # h2
        /\ cb[h2].pc = "done" /\ cb[h2].result = InvalidNonce
        /\ cb[h].pc = "done" /\ cb[h].result = InvalidState
        /\ cb[h].state = cb[h2].state

\* C9: no PendingLogin stays in the state store once its TTL has passed, and
\* no callback finds a state whose TTL has passed.
C9_ExpiresAfterTTL ==
    /\ \A s \in DOMAIN stateStore : now < IssuedAt(s) + LoginTTL
    /\ \A h \in Handlers : cb[h].pc = "L97" => now < IssuedAt(cb[h].state) + LoginTTL

\* C10: the token cache changes only in the store of a callback whose state
\* was issued and found, whose ID token was verified and whose nonce claim is
\* the stored nonce; a callback with a state never issued is answered with
\* the invalid-state error, a nonce mismatch with the nonce error, and no
\* callback that is turned down changes the cache.
C10_CacheOnlyWhenVerified ==
    [][/\ tokenCache' # tokenCache =>
            \E h \in Handlers :
                /\ cb[h].pc = "L135" /\ cb'[h].pc = "done" /\ cb'[h].result = Successful
                /\ cb[h].state \in IssuedStates
                /\ cb[h].verified /\ cb[h].stored.isString
                /\ cb[h].idNonce = cb[h].stored.nonce
                /\ tokenCache' = MapStore(tokenCache, cb[h].key, cb[h].entry)
       /\ \A h \in Handlers :
            /\ cb'[h].pc = "done" /\ cb'[h].state \notin IssuedStates
                  => cb'[h].result = InvalidState
            /\ (/\ cb'[h].pc = "done" /\ cb'[h].verified /\ cb'[h].stored.isString
                /\ cb'[h].idNonce # cb'[h].stored.nonce)
                  => cb'[h].result = InvalidNonce
            /\ cb[h].pc # "done" /\ cb'[h].pc = "done" /\ cb'[h].result # Successful
                  => tokenCache' = tokenCache]_vars

\* C10 witness: one callback stored its entry and another, with the code of
\* a different login, was turned down for its nonce.
C10_Witness ==
    /\ tokenCache # EmptyMap
    /\ \E h, h2 \in Handlers :
          /\ cb[h].pc = "done" /\ cb[h].result = InvalidNonce
          /\ cb[h2].pc = "done" /\ cb[h2].result = Successful

\* C11: no two GetAWSConfig calls for the same account are between the
\* refresh and the store of getOIDCToken at the same time.
C11_OneRefreshPerAccount ==
    \A m1, m2 \in Minters :
        (/\ m1 # m2
         /\ mint[m1].pc \in {"L196", "L205"}
         /\ mint[m2].pc \in {"L196", "L205"})
        => mint[m1].account # mint[m2].account

\* C12: when every GetAWSConfig call has returned, the cache entry of an
\* account that was refreshed is the encryption of the latest refresh result,
\* never of an older one.
C12_NoLostUpdate ==
    (\A m \in Minters : mint[m].pc \in {"idle", "done"})
    => \A a \in DOMAIN newest :
          decryptToken(tokenCache[a].Token).token.AccessToken = newest[a]

NoTokenError == "failed to get OIDC token: " \o NoTokenFound

\* C13: GetAWSConfig for an account with no cache entry returns the no-token
\* error, refreshes nothing, gives no identity token to exchange, and leaves
\* the token cache and the state store unchanged.
C13_NoTokenNoEffect ==
    [][\A m \in Minters :
          (/\ mint[m].pc = "L180"
           /\ mint'[m].pc # "L180"
           /\ mint[m].account \notin DOMAIN tokenCache)
          => /\ mint'[m].pc = "done"
             /\ mint'[m].result = [err |-> NoTokenError, identity |-> ""]
             /\ mint'[m].ret = NoToken
             /\ nrefresh' = nrefresh
             /\ tokenCache' = tokenCache
             /\ stateStore' = stateStore]_vars

\* C13 witness: a call for the AWS account id, which no login ever stored,
\* has returned the no-token error.
C13_Witness ==
    \E m \in Minters :
        /\ mint[m].pc = "done" /\ mint[m].account = Acct1
        /\ mint[m].result.err = NoTokenError
        /\ tokenCache # EmptyMap

\* The token has an expiry and, by the library's reckoning, it has passed
\* when the clock reads t seconds.
Expired(token, t) ==
    token.Expiry # 0 /\ token.Expiry * SecondsPerTick - ExpiryDeltaSeconds < t

\* C14: with a cached token that is still valid getOIDCToken returns it and
\* leaves the cache alone; with an expired one it goes on to the refresh, and
\* after a refresh that succeeds it stores the encryption of the refreshed
\* token under that account only and returns the refreshed token.
C14_RefreshOverwrites ==
    [][\A m \in Minters :
          LET a == mint[m].account
          IN  /\ \A loaded \in BOOLEAN, sec \in ClockOffsets :
                    (/\ mint[m].pc = "L180"
                     /\ mint'[m].pc # "L180"
                     /\ a \in DOMAIN tokenCache
                     /\ MintLoad(m, loaded, sec))
                    => LET cached == decryptToken(tokenCache[a].Token).token
                       IN  IF Expired(cached, now * SecondsPerTick + sec)
                           THEN mint'[m].pc = "L196" /\ tokenCache' = tokenCache
                           ELSE /\ mint'[m].pc = "done"
                                /\ mint'[m].ret = cached
                                /\ tokenCache' = tokenCache
              /\ (mint[m].pc = "L196" /\ mint'[m].pc = "L205")
                 => /\ mint'[m].newToken.AccessToken = "at-r" \o ToString(nrefresh')
                    /\ ~Expired(mint'[m].newToken, LateClock)
              /\ (mint[m].pc = "L205" /\ mint'[m].pc = "done")
                 => /\ DOMAIN tokenCache' = DOMAIN tokenCache \cup {a}
                    /\ \A k \in DOMAIN tokenCache \ {a} : tokenCache'[k] = tokenCache[k]
                    /\ tokenCache'[a].AccountID = a
                    /\ decryptToken(tokenCache'[a].Token).token =
                          [mint[m].newToken EXCEPT !.IDToken = FALSE]
                    /\ mint'[m].ret = mint[m].newToken
                    /\ mint'[m].result.identity \in {"", mint[m].newToken.AccessToken}]_vars

\* C14 witness: a call has returned a refreshed token, the account's entry is
\* its encryption, and another account's entry is in the cache.
C14_Witness ==
    \E m \in Minters :
        /\ mint[m].pc = "done"
        /\ StartsWith(mint[m].ret.AccessToken, "at-r")
        /\ decryptToken(tokenCache[mint[m].account].Token).token.AccessToken
              = mint[m].ret.AccessToken
        /\ DOMAIN tokenCache \ {mint[m].account} # {}

RefreshFailedError == "failed to get OIDC token: " \o RefreshFailed

\* C15: when the provider refuses the refresh, the call returns the
\* refresh-failed error and the token cache is what it was.
C15_RefreshFailureKeepsCache ==
    [][\A m \in Minters, iv \in GCMNonces, loaded \in BOOLEAN :
          (mint[m].pc = "L196" /\ mint'[m].pc # "L196" /\ MintRefresh(m, FALSE, iv, loaded))
          => /\ mint'[m].pc = "done"
             /\ mint'[m].result = [err |-> RefreshFailedError, identity |-> ""]
             /\ mint'[m].ret = NoToken
             /\ tokenCache' = tokenCache]_vars

\* C15 witness: a call has returned the refresh-failed error and the
\* account's entry is still the encryption of the login's token.
C15_Witness ==
    \E m \in Minters :
        /\ mint[m].pc = "done"
        /\ mint[m].result.err = RefreshFailedError
        /\ decryptToken(tokenCache[mint[m].account].Token).token
              = [LoginToken(UserIndex(mint[m].account), 0) EXCEPT !.IDToken = FALSE]

\* C16: every entry of the token cache holds, as its access token, a text
\* that decryptToken opens under the module's key, and no refresh token and
\* no id_token; a caller's frame holds no decrypted token between calls.
C16_OnlyCiphertext ==
    /\ \A k \in DOMAIN tokenCache :
          LET e == tokenCache[k].Token
              d == decryptToken(e)
          IN  /\ d.err = ""
              /\ e.AccessToken # d.token.AccessToken
              /\ e.RefreshToken = ""
              /\ ~e.IDToken
    /\ \A m \in Minters : mint[m].pc \in {"idle", "L180"} => mint[m].token = NoToken

\* C16 witness: the cache holds an entry stored by a refresh and an entry
\* stored by a login.
C16_Witness ==
    /\ DOMAIN tokenCache \cap DOMAIN newest # {}
    /\ DOMAIN tokenCache \ DOMAIN newest # {}
    /\ \A m \in Minters : mint[m].pc = "done"

\* C17: decryptToken of what encryptToken returned gives, without error, the
\* access token, token type, refresh token and expiry of the payload.
C17_RoundTrip ==
    crypt.pc = "opened"
    => /\ crypt.opened.err = ""
       /\ crypt.opened.token.AccessToken = crypt.token.AccessToken
       /\ crypt.opened.token.TokenType = crypt.token.TokenType
       /\ crypt.opened.token.RefreshToken = crypt.token.RefreshToken
       /\ crypt.opened.token.Expiry = crypt.token.Expiry

\* C17 witness: a payload with a refresh token, no token type and a
\* two-digit expiry has gone through both.
C17_Witness ==
    /\ crypt.pc = "opened"
    /\ crypt.token.RefreshToken # "" /\ crypt.token.TokenType = ""
    /\ crypt.token.Expiry >= 10
    /\ Len(crypt.token.AccessToken) > 10

ScheduleParseError == "error parsing schedule"

\* C18: CreateTask with a malformed schedule returns the parse error and
\* leaves the task map and the cron's entries as they were.
C18_BadScheduleNotRegistered ==
    [][CreateTask(CfgBadSchedule)
          => /\ lastCall' = [op |-> "CreateTask", id |-> Nil, err |-> ScheduleParseError]
             /\ tasks' = tasks
             /\ entries' = entries
             /\ nextID' = nextID]_vars

\* C18 witness: CreateTask has returned the parse error with a task stored.
C18_Witness ==
    /\ lastCall = [op |-> "CreateTask", id |-> Nil, err |-> ScheduleParseError]
    /\ tasks # EmptyMap

\* C19: every stored task that has an operation has one whose command its
\* service knows: none can fail with an unknown command when it fires.
C19_ResolvedAtCreation ==
    \A id \in DOMAIN tasks :
        tasks[id].Execute # NilFunc => KnownCommand(tasks[id].Execute)

\* C20: a successful CreateTask stores one task under a fresh non-empty id,
\* leaves the stored tasks and the cron's entries as they were, adds one
\* entry, which fires that id, and GetAllTasks then returns the new task
\* with the earlier ones.
C20_CreateAddsOne ==
    [][\A cfg \in TaskConfigs :
          (CreateTask(cfg) /\ lastCall'.err = Nil)
          => LET id == lastCall'.id
             IN  /\ id \notin {"", Nil}
                 /\ id \notin DOMAIN tasks
                 /\ DOMAIN tasks' = DOMAIN tasks \cup {id}
                 /\ \A k \in DOMAIN tasks : tasks'[k] = tasks[k]
                 /\ tasks'[id].ID = id
                 /\ entries \subseteq entries'
                 /\ Cardinality(entries' \ entries) = 1
                 /\ \A e \in entries' \ entries : e.task = id
                 /\ GetAllTasks' = GetAllTasks \cup {tasks'[id]}
                 /\ Cardinality(GetAllTasks') = Cardinality(GetAllTasks) + 1]_vars

\* C20 witness: CreateTask has returned a task and the map holds it with an
\* earlier one.
C20_Witness ==
    /\ lastCall.op = "CreateTask" /\ lastCall.err = Nil
    /\ lastCall.id \in DOMAIN tasks
    /\ Cardinality(DOMAIN tasks) = 2

\* C21: UpdateTask, DeleteTask and ExecuteTask called with an id the task map
\* does not hold return the not-found error and leave the task map, the
\* cron's entries and the executions as they were.
C21_MissingIdNoEffect ==
    [][(/\ ncalls' # ncalls
        /\ lastCall'.op \in {"UpdateTask", "DeleteTask", "ExecuteTask"}
        /\ lastCall'.id \notin DOMAIN tasks)
          => /\ lastCall'.err = NotFound
             /\ tasks' = tasks
             /\ entries' = entries
             /\ nextID' = nextID
             /\ execs' = execs]_vars

\* C21 witness: a call for an id the map does not hold has returned not-found
\* while a task is stored and registered.
C21_Witness ==
    /\ lastCall.op \in {"UpdateTask", "DeleteTask", "ExecuteTask"}
    /\ lastCall.err = NotFound
    /\ lastCall.id \notin DOMAIN tasks
    /\ tasks # EmptyMap
    /\ entries # {}

\* C22: every task stored under key k has ID k, whatever task UpdateTask was
\* given.
C22_IdIsKey == \A k \in DOMAIN tasks : tasks[k].ID = k

\* C23: a pass of GetDueTasks that returns gives a goroutine to exactly the
\* stored tasks whose first occurrence after the clock's time is less than
\* one minute away.
C23_DueWithinWindow ==
    [][nextPoll' # nextPoll
          => \A k \in DOMAIN tasks :
                LET period == tasks[k].Schedule.period
                    occ == CHOOSE o \in (now + 1)..(now + period) : o % period = 0
                IN  (\E g \in spawned' : g.key = k) <=> (occ - now < TicksPerMinute)]_vars

\* C23 witness: a pass has just returned one stored task as due and left
\* another, whose occurrence is further away, out.
C23_Witness ==
    /\ nextPoll = now + TicksPerMinute
    /\ \E g \in spawned : g.key \in DOMAIN tasks
    /\ \E k \in DOMAIN tasks : \A g \in spawned : g.key # k

\* C24: a pass of GetDueTasks leaves the task map, every stored task and the
\* cron's entries as they were.
C24_DueTasksReadOnly ==
    [][nextPoll' # nextPoll
          => /\ tasks' = tasks
             /\ entries' = entries
             /\ nextID' = nextID]_vars

\* C24 witness: a pass has returned a due task that has a cron entry.
C24_Witness ==
    \E g \in spawned : \E e \in entries : e.task = g.key /\ g.key \in DOMAIN tasks

\* C26: when an execution started by the cron or by main's loop completes,
\* with a result or with an error, a message is posted to its task's channel.
C26_CompletionPosts ==
    [][\A x \in execs \ execs' :
          x.src \in {"cron", "poll"}
          => posts'.n = posts.n + 1 /\ posts'.channel = x.channel]_vars

\* C27: no firing and no pass of GetDueTasks ends the process.
C27_NoAbort == ~crashed

\* C30: when UpdateTask returns the scheduling error, the task map and the
\* cron's entries are as they were before the call.
C30_FailedUpdateNoEffect ==
    [][(/\ ncalls' # ncalls
        /\ lastCall'.op = "UpdateTask"
        /\ lastCall'.err = ScheduleFailed)
          => tasks' = tasks /\ entries' = entries]_vars

\* C25: in a run over several accounts in which the AWS calls succeed, every
\* account for which credentials were obtained is gone through and reported,
\* whether or not credentials failed for another.
C25_OtherAccountsReported ==
    (/\ run.pc = "done"
     /\ KnownCommand(run.f)
     /\ \A a \in AuditedAccounts : run.cloud[a])
        => \A i \in 1..Len(run.f.accounts) :
              run.cred[run.f.accounts[i]]
              => \E j \in 1..Len(run.result.report) :
                    run.result.report[j] = run.f.accounts[i]

\* C28: a request to a route under /api is served only when the cache holds
\* a token under the caller's Authorization header that decrypts.
C28_ServedOnlyWithToken ==
    [][ncalls' # ncalls /\ request'.status # Unauthorized
          => LET found == CacheLoad(tokenCache, request'.header)
             IN  found.ok /\ decryptToken(found.entry.Token).err = ""]_vars

\* C29: getOIDCToken returns the cached token without a refresh whenever the
\* clock reads less than the stored expiry, and goes on to the refresh only
\* when it reads the expiry or more.
C29_ValidUntilExpiry ==
    [][\A m \in Minters, loaded \in BOOLEAN, sec \in ClockOffsets :
          (/\ mint[m].pc = "L180"
           /\ mint'[m].pc # "L180"
           /\ mint[m].account \in DOMAIN tokenCache
           /\ MintLoad(m, loaded, sec))
          => LET cached == decryptToken(tokenCache[mint[m].account].Token).token
                 t == now * SecondsPerTick + sec
             IN  IF t < cached.Expiry * SecondsPerTick
                 THEN mint'[m].pc = "done" /\ mint'[m].ret = cached
                 ELSE mint'[m].pc = "L196"]_vars

\* C31: every stored task has a parsed Schedule, which is the parse of its
\* ScheduleString, and an Execute, which is the closure resolved from its own
\* Service, Command and AWSAccounts, whatever task the callers supplied.
C31_StoredTasksResolved ==
    \A id \in DOMAIN tasks :
        LET task == tasks[id]
            parsed == ParseStandard(task.ScheduleString)
        IN  /\ task.Schedule # NilSchedule
            /\ ~parsed.err /\ task.Schedule = parsed.schedule
            /\ task.Execute # NilFunc
            /\ task.Execute = Resolved(task)

\* C32: once a callback has answered a login with the success message, a
\* GetAWSConfig call for an account that the tasks list in AWSAccounts finds
\* the login's entry: it does not return the no-token error.
C32_LoginKeyIsBrokerKey ==
    [][\A m \in Minters :
          (/\ mint[m].pc = "L180"
           /\ mint'[m].pc = "done"
           /\ mint[m].account \in AuditedAccounts
           /\ \E h \in Handlers : cb[h].pc = "done" /\ cb[h].result = Successful)
          => mint'[m].result.err # NoTokenError]_vars

\* C33: a refresh never overwrites the entry of a login that was stored after
\* the refresh read the cache.  The refresh goes on from line 191 only with a
\* token it found expired, so when at line 205 the account's entry is a
\* login's token that has not expired, that entry was stored after the
\* refresh read, and the refresh leaves it in the cache.
C33_RefreshKeepsLaterLogin ==
    [][\A m \in Minters :
          LET a == mint[m].account
          IN  (/\ mint[m].pc = "L205"
               /\ mint'[m].pc = "done"
               /\ a \in DOMAIN tokenCache
               /\ LET cur == decryptToken(tokenCache[a].Token).token
                  IN  /\ ~StartsWith(cur.AccessToken, "at-r")
                      /\ ~Expired(cur, LateClock))
              => tokenCache'[a] = tokenCache[a]]_vars
====
